---- MODULE Spec2Model ----
(***************************************************************************)
(* Model of main.py: the blocklist parser (parse_blocklist) and the        *)
(* aggregation / assembly pipeline of main().                              *)
(*                                                                         *)
(* A Python str is modelled as a sequence of one-character strings, so     *)
(* that strip, split, the three regular expressions, lower() and upper()   *)
(* are computed character by character.  A rule is the tuple               *)
(* <<rule_type, domain>>; a set of rules is a TLA+ set.  The dict          *)
(* `blocklists` keeps insertion order, so it is a sequence of              *)
(* [name, rules] records.  The repeated field `domain` of a GeoSite is     *)
(* filled by iterating a Python set, whose order is arbitrary: it is       *)
(* modelled as the set of its [type, value] entries.                       *)
(***************************************************************************)
EXTENDS Integers, Sequences, FiniteSets, TLC

VARIABLES
    pc,          \* position of the run / of parse_blocklist
    blocklists,  \* main.py:147  Dict[str, Set[Rule]], insertion-ordered
    all_rules,   \* main.py:148  Set[Rule]
    nread,       \* number of manifest lines read so far (main.py:151)
    event,       \* what the last step did (the branch taken / the log line)
    name,        \* main.py:157  name of the manifest line just processed
    rules,       \* main.py:57 / main.py:165  the rule set being built / just parsed
    lines,       \* main.py:58   content.splitlines() of the document being parsed
    hit,         \* the rule added by the last loop iteration of parse_blocklist
    old,         \* the catalog as it was before the last step that could change it (history)
    entries,     \* main.py:179  geosite_list.entry
    prev         \* result of the previous run (two-run specification only)

vars == <<pc, blocklists, all_rules, nread, event, name, rules, lines, hit,
          old, entries, prev>>

-----------------------------------------------------------------------------
(* Bounds *)

MaxManifestLines == 3
MaxFetchLines == 2
MaxDocLines == 3

-----------------------------------------------------------------------------
(* Characters *)

Range(s) == {s[i] : i \in 1..Len(s)}

Digits == <<"0", "1", "2", "3", "4", "5", "6", "7", "8", "9">>
LowerChars == <<"a", "b", "c", "d", "e", "f", "g", "h", "i", "j", "k", "l", "m",
                "n", "o", "p", "q", "r", "s", "t", "u", "v", "w", "x", "y", "z">>
UpperChars == <<"A", "B", "C", "D", "E", "F", "G", "H", "I", "J", "K", "L", "M",
                "N", "O", "P", "Q", "R", "S", "T", "U", "V", "W", "X", "Y", "Z">>

IndexOf(s, c) == CHOOSE i \in 1..Len(s) : s[i] = c

\* Code point of a character (ASCII).
Ord(c) ==
    IF c \in Range(UpperChars) THEN 64 + IndexOf(UpperChars, c)
    ELSE IF c \in Range(LowerChars) THEN 96 + IndexOf(LowerChars, c)
    ELSE IF c \in Range(Digits) THEN 47 + IndexOf(Digits, c)
    ELSE IF c = "\t" THEN 9
    ELSE IF c = " " THEN 32
    ELSE IF c = "!" THEN 33
    ELSE IF c = "#" THEN 35
    ELSE IF c = "-" THEN 45
    ELSE IF c = "." THEN 46
    ELSE IF c = "/" THEN 47
    ELSE IF c = "^" THEN 94
    ELSE IF c = "_" THEN 95
    ELSE 124  \* "|"

\* str.isspace() / regex \s
Whitespace == {" ", "\t"}
\* regex \w
WordChars == Range(Digits) \cup Range(LowerChars) \cup Range(UpperChars) \cup {"_"}
\* regex [\w\.-]
TokenChars == WordChars \cup {".", "-"}

LowerChar(c) == IF c \in Range(UpperChars) THEN LowerChars[IndexOf(UpperChars, c)] ELSE c
UpperChar(c) == IF c \in Range(LowerChars) THEN UpperChars[IndexOf(LowerChars, c)] ELSE c

\* str.lower() left the characters as they are
LowerIdentity(s) == s

\* str.lower()
Lower(s) == [i \in 1..Len(s) |-> LowerChar(s[i])]

\* str.upper()
Upper(s) == [i \in 1..Len(s) |-> UpperChar(s[i])]

-----------------------------------------------------------------------------
(* String helpers *)

Drop(s, n) == SubSeq(s, n + 1, Len(s))

StartsWith(s, p) == Len(s) >= Len(p) /\ SubSeq(s, 1, Len(p)) = p

\* Length of the longest prefix of s made of characters of C (a greedy C*).
RECURSIVE Span(_, _)
Span(s, C) == IF s = <<>> \/ s[1] \notin C THEN 0 ELSE 1 + Span(Tail(s), C)

RECURSIVE LStrip(_)
LStrip(s) == IF s = <<>> \/ s[1] \notin Whitespace THEN s ELSE LStrip(Tail(s))

RECURSIVE RStrip(_)
RStrip(s) ==
    IF s = <<>> \/ s[Len(s)] \notin Whitespace THEN s
    ELSE RStrip(SubSeq(s, 1, Len(s) - 1))

\* str.strip()
Strip(s) == RStrip(LStrip(s))

\* line.split()[0] of a stripped, non-empty line: the first run of
\* non-whitespace characters.
RECURSIVE FirstPart(_)
FirstPart(s) ==
    IF s = <<>> \/ s[1] \in Whitespace THEN <<>> ELSE <<s[1]>> \o FirstPart(Tail(s))

-----------------------------------------------------------------------------
(* The three patterns.  Each returns group(1), or <<>> when there is no     *)
(* match (group(1) is never empty on a match).                             *)

IP127 == <<"1", "2", "7", ".", "0", ".", "0", ".", "1">>
IP0 == <<"0", ".", "0", ".", "0", ".", "0">>

\* ^(?:127\.0\.0\.1|0\.0\.0\.0)\s+([\w\.-]+)
HOSTS_PATTERN(line) ==
    LET p == IF StartsWith(line, IP127) THEN Len(IP127)
             ELSE IF StartsWith(line, IP0) THEN Len(IP0) ELSE 0
        r1 == Drop(line, p)
        w == Span(r1, Whitespace)
        r2 == Drop(r1, w)
        t == Span(r2, TokenChars)
    IN  IF p > 0 /\ w > 0 /\ t > 0 THEN SubSeq(r2, 1, t) ELSE <<>>

\* ^\|\|([\w\.-]+)\^
ADGUARD_PATTERN(line) ==
    LET r == Drop(line, 2)
        t == Span(r, TokenChars)
    IN  IF StartsWith(line, <<"|", "|">>) /\ t > 0 /\ Len(r) > t /\ r[t + 1] = "^"
        THEN SubSeq(r, 1, t) ELSE <<>>

\* ^([\w\.-]+\.[\w]+)$
RAW_DOMAIN_PATTERN(tok) ==
    IF \E i \in 2..(Len(tok) - 1) :
          /\ tok[i] = "."
          /\ \A j \in 1..(i - 1) : tok[j] \in TokenChars
          /\ \A j \in (i + 1)..Len(tok) : tok[j] \in WordChars
    THEN tok ELSE <<>>

-----------------------------------------------------------------------------
(* parse_blocklist *)

None == <<>>

\* The body of the for loop with the raw-domain fallback tried before the
\* hosts pattern.
ClassifyLineRawFirst(rawline) ==
    LET line == Strip(rawline)
        raw == RAW_DOMAIN_PATTERN(FirstPart(line))
        hosts == HOSTS_PATTERN(line)
        adguard == ADGUARD_PATTERN(line)
    IN  IF line = <<>> \/ line[1] \in {"#", "!", "/"} THEN None
        ELSE IF raw # <<>> THEN <<"domain", Lower(raw)>>
        ELSE IF hosts # <<>> THEN <<"full", Lower(hosts)>>
        ELSE IF adguard # <<>> THEN <<"domain", Lower(adguard)>>
        ELSE None

\* The body of the for loop: the rule one line adds, or None.
ClassifyLine(rawline) ==
    LET line == Strip(rawline)
        hosts == HOSTS_PATTERN(line)
        adguard == ADGUARD_PATTERN(line)
        raw == RAW_DOMAIN_PATTERN(FirstPart(line))
    IN  IF line = <<>> \/ line[1] \in {"#", "!", "/"} THEN None
        ELSE IF hosts # <<>> THEN <<"full", Lower(hosts)>>
        ELSE IF adguard # <<>> THEN <<"domain", Lower(adguard)>>
        ELSE IF raw # <<>> THEN <<"domain", Lower(raw)>>
        ELSE None

\* rules.add(rule) that forgets the rules added before
RulesAddOverwrite(rs, r) == IF r = None THEN rs ELSE {r}

\* rules.add(rule), for the rule of one line (nothing when there is none)
RulesAdd(rs, r) == IF r = None THEN rs ELSE rs \cup {r}

\* parse_blocklist(content), content.splitlines() being ls
RECURSIVE ParseFrom(_, _)
ParseFrom(ls, rs) ==
    IF ls = <<>> THEN rs
    ELSE ParseFrom(Tail(ls), RulesAdd(rs, ClassifyLine(Head(ls))))

parse_blocklist(ls) == ParseFrom(ls, {})

-----------------------------------------------------------------------------
(* The lines parse_blocklist is exercised on *)

Prefixes == {<<>>, IP0 \o <<" ">>, <<"|", "|">>}
Tokens == {<<"a", ".", "b">>, <<"A", ".", "b">>}
Suffixes == {<<>>, <<"^">>, <<" ", "x">>}

SpecialLines ==
    { <<>>,
      <<"#", "a", ".", "b">>,
      IP0,
      IP127 \o <<"\t", "A", ".", "b">>,
      <<" ", "a", ".", "b", " ">>,
      <<"a", "b">>,
      <<"a", ".", "b", "-">>,
      <<"!", "a", ".", "b">>,
      <<"/", "a", ".", "b">> }

DocLines == {p \o t \o s : p \in Prefixes, t \in Tokens, s \in Suffixes} \cup SpecialLines

-----------------------------------------------------------------------------
(* parse_blocklist, one loop iteration per step.  The loop looks at one    *)
(* line at a time, so the content is drawn line by line: `lines` holds the *)
(* lines iterated so far.                                                  *)

InitParse ==
    /\ pc = "parse"
    /\ lines = <<>>
    /\ rules = {}
    /\ hit = None
    /\ blocklists = <<>>
    /\ all_rules = {}
    /\ nread = 0
    /\ event = "none"
    /\ name = <<>>
    /\ old = <<>>
    /\ entries = <<>>
    /\ prev = <<>>

\* main.py:60-87, one iteration
ParseLine ==
    /\ pc = "parse"
    /\ Len(lines) < MaxDocLines
    /\ \E l \in DocLines :
          /\ lines' = Append(lines, l)
          /\ hit' = ClassifyLine(l)
          /\ rules' = RulesAdd(rules, ClassifyLine(l))
    /\ UNCHANGED <<pc, blocklists, all_rules, nread, event, name, old, entries, prev>>

\* main.py:89
ParseReturn ==
    /\ pc = "parse"
    /\ pc' = "parsed"
    /\ UNCHANGED <<blocklists, all_rules, nread, event, name, rules, lines, hit,
                   old, entries, prev>>

NextParse == ParseLine \/ ParseReturn

SpecParse == InitParse /\ [][NextParse]_vars

-----------------------------------------------------------------------------
(* The catalog: an insertion-ordered dict, as a sequence of groups *)

COMBINED == <<"b", "l", "o", "c", "k", "l", "i", "s", "t", "s", "-", "a", "l", "l">>

Keys(d) == {d[i].name : i \in 1..Len(d)}

\* d[k], for k in Keys(d)
Get(d, k) == d[CHOOSE i \in 1..Len(d) : d[i].name = k].rules

\* d[k] = v that keeps the value already stored under k
DictSetKeepFirst(d, k, v) ==
    IF k \in Keys(d) THEN d ELSE Append(d, [name |-> k, rules |-> v])

\* d[k] = v: a present key keeps its position and takes the new value, a
\* new key goes last.
DictSet(d, k, v) ==
    IF k \in Keys(d)
    THEN [i \in 1..Len(d) |-> IF d[i].name = k THEN [name |-> k, rules |-> v] ELSE d[i]]
    ELSE Append(d, [name |-> k, rules |-> v])

\* all_rules.update(rules) that replaces the accumulated set
UpdateReplace(all, rs) == rs

\* all_rules.update(rules)
Update(all, rs) == all \cup rs

\* the combined list written whether or not all_rules is empty
SealCatalogAlways(d, all) == DictSet(d, COMBINED, all)

\* main.py:174-176
SealCatalog(d, all) == IF all # {} THEN DictSet(d, COMBINED, all) ELSE d

-----------------------------------------------------------------------------
(* Assembly *)

\* rule_type_map.get(rule_type, Domain.Plain)
RuleTypeMap(t) ==
    IF t = "domain" THEN "RootDomain"
    ELSE IF t = "full" THEN "Full"
    ELSE IF t = "regexp" THEN "Regex"
    ELSE "Plain"

\* One GeoSite per group, in the order of blocklists.items()
BuildEntries(d) ==
    [i \in 1..Len(d) |->
        [country_code |-> Upper(d[i].name),
         domain |-> {[type |-> RuleTypeMap(r[1]), value |-> r[2]] : r \in d[i].rules}]]

\* a < b for two str: by code point, a proper prefix being smaller
RECURSIVE StrLess(_, _)
StrLess(a, b) ==
    IF b = <<>> THEN FALSE
    ELSE IF a = <<>> THEN TRUE
    ELSE IF Ord(a[1]) # Ord(b[1]) THEN Ord(a[1]) < Ord(b[1])
    ELSE StrLess(Tail(a), Tail(b))

\* e put into the sorted sequence s behind every element whose key is not
\* greater than its own (list.sort is stable).
RECURSIVE InsertByKey(_, _)
InsertByKey(s, e) ==
    IF s = <<>> THEN <<e>>
    ELSE IF StrLess(e.country_code, s[1].country_code) THEN <<e>> \o s
    ELSE <<s[1]>> \o InsertByKey(Tail(s), e)

RECURSIVE SortFrom(_, _)
SortFrom(todo, done) ==
    IF todo = <<>> THEN done ELSE SortFrom(Tail(todo), InsertByKey(done, Head(todo)))

\* the entries left in the order they were appended
NoSort(es) == es

\* geosite_list.entry.sort(key=lambda s: s.country_code)
SortByCountryCode(es) == SortFrom(es, <<>>)

-----------------------------------------------------------------------------
(* The inputs of a run *)

Names == {<<"c">>, <<"C">>, COMBINED}

\* The lines of the fetched documents: a comment, a hosts line, a raw
\* domain followed by another token.
FetchLines ==
    { <<"#", "a", ".", "b">>,
      IP0 \o <<" ", "A", ".", "b">>,
      <<"a", ".", "b", " ", "x">> }

RECURSIVE SeqsUpTo(_, _)
SeqsUpTo(S, n) ==
    IF n = 0 THEN {<<>>}
    ELSE LET shorter == SeqsUpTo(S, n - 1)
         IN  shorter \cup {Append(q, x) : q \in shorter, x \in S}

\* response.text, split into lines
FetchDocs == SeqsUpTo(FetchLines, MaxFetchLines)

\* parse_blocklist(content) of every document a fetch can return
Parsed == [doc \in FetchDocs |-> parse_blocklist(doc)]

-----------------------------------------------------------------------------
(* main(), from the two empty collections of main.py:147-148 on *)

Init ==
    /\ pc = "loop"
    /\ blocklists = <<>>
    /\ all_rules = {}
    /\ nread = 0
    /\ event = "none"
    /\ name = <<>>
    /\ rules = {}
    /\ lines = <<>>
    /\ hit = None
    /\ old = <<>>
    /\ entries = <<>>
    /\ prev = <<>>

\* main.py:151-154: a blank line or a comment
SkipLine ==
    /\ pc = "loop"
    /\ nread < MaxManifestLines
    /\ nread' = nread + 1
    /\ event' = "skipped"
    /\ old' = blocklists
    /\ UNCHANGED <<pc, blocklists, all_rules, name, rules, lines, hit, entries, prev>>

\* main.py:156-160: a line without a comma
InvalidLine ==
    /\ pc = "loop"
    /\ nread < MaxManifestLines
    /\ nread' = nread + 1
    /\ event' = "invalid"
    /\ old' = blocklists
    /\ UNCHANGED <<pc, blocklists, all_rules, name, rules, lines, hit, entries, prev>>

\* a failed fetch that drops the group stored under the name
FetchFailDropsGroup ==
    /\ pc = "loop"
    /\ nread < MaxManifestLines
    /\ \E n \in Names :
          /\ name' = n
          /\ blocklists' = SelectSeq(blocklists, LAMBDA g : g.name # n)
    /\ nread' = nread + 1
    /\ event' = "fetch_failed"
    /\ old' = blocklists
    /\ UNCHANGED <<pc, all_rules, rules, lines, hit, entries, prev>>

\* main.py:162-164, 169-171: fetch_blocklist raises RequestException
FetchFail ==
    /\ pc = "loop"
    /\ nread < MaxManifestLines
    /\ \E n \in Names : name' = n
    /\ nread' = nread + 1
    /\ event' = "fetch_failed"
    /\ old' = blocklists
    /\ UNCHANGED <<pc, blocklists, all_rules, rules, lines, hit, entries, prev>>

\* main.py:162-168: the list is fetched, parsed and stored
FetchOk ==
    /\ pc = "loop"
    /\ nread < MaxManifestLines
    /\ \E n \in Names, doc \in FetchDocs :
          /\ name' = n
          /\ rules' = Parsed[doc]
          /\ blocklists' = DictSet(blocklists, n, Parsed[doc])
          /\ all_rules' = Update(all_rules, Parsed[doc])
    /\ nread' = nread + 1
    /\ event' = "fetched"
    /\ old' = blocklists
    /\ UNCHANGED <<pc, lines, hit, entries, prev>>

\* main.py:151: the manifest has no more lines
EndOfManifest ==
    /\ pc = "loop"
    /\ pc' = "seal"
    /\ event' = "eof"
    /\ old' = blocklists
    /\ UNCHANGED <<blocklists, all_rules, nread, name, rules, lines, hit, entries, prev>>

\* main.py:173-176
Seal ==
    /\ pc = "seal"
    /\ pc' = "assemble"
    /\ blocklists' = SealCatalog(blocklists, all_rules)
    /\ event' = IF all_rules # {} THEN "sealed" ELSE "not_sealed"
    /\ old' = blocklists
    /\ UNCHANGED <<all_rules, nread, name, rules, lines, hit, entries, prev>>

\* main.py:178-201
Assemble ==
    /\ pc = "assemble"
    /\ pc' = "write"
    /\ entries' = SortByCountryCode(BuildEntries(blocklists))
    /\ event' = "assembled"
    /\ UNCHANGED <<blocklists, all_rules, nread, name, rules, lines, hit, old, prev>>

\* main.py:204-208
WriteOk ==
    /\ pc = "write"
    /\ pc' = "done"
    /\ event' = "written"
    /\ UNCHANGED <<blocklists, all_rules, nread, name, rules, lines, hit, old,
                   entries, prev>>

\* main.py:209-211
WriteFail ==
    /\ pc = "write"
    /\ pc' = "exit1"
    /\ event' = "write_failed"
    /\ UNCHANGED <<blocklists, all_rules, nread, name, rules, lines, hit, old,
                   entries, prev>>

Next ==
    \/ SkipLine
    \/ InvalidLine
    \/ FetchFail
    \/ FetchOk
    \/ EndOfManifest
    \/ Seal
    \/ Assemble
    \/ WriteOk
    \/ WriteFail

Spec == Init /\ [][Next]_vars

\* The run is one sequential thread: a step that can be taken is taken
\* (every fetch is bounded by REQUEST_TIMEOUT).
FairSpec == Spec /\ WF_vars(Next)

\* The groups of a catalog, without their insertion order
Groups(d) == {d[i] : i \in 1..Len(d)}

\* The program is run a second time, on a manifest and fetch outcomes of
\* its own; the first run's catalog and output are kept for comparison.
Restart ==
    /\ pc = "done"
    /\ prev = <<>>
    /\ prev' = <<[catalog |-> Groups(blocklists), entries |-> entries]>>
    /\ pc' = "loop"
    /\ blocklists' = <<>>
    /\ all_rules' = {}
    /\ nread' = 0
    /\ event' = "none"
    /\ name' = <<>>
    /\ rules' = {}
    /\ old' = <<>>
    /\ entries' = <<>>
    /\ UNCHANGED <<lines, hit>>

NextTwoRuns == Next \/ Restart

SpecTwoRuns == Init /\ [][NextTwoRuns]_vars

\* parse_blocklist and main() side by side: the rule sets the parser
\* returns and the catalogs built from them.
SpecAll == (Init \/ InitParse) /\ [][Next \/ NextParse]_vars

-----------------------------------------------------------------------------
(* Vocabulary of the claims *)

\* Manifest processing has ended and lines 173-176 have run; `old` is the
\* catalog as it was just before them.
Sealed == pc \in {"assemble", "write", "done", "exit1"}
Assembled == pc \in {"write", "done", "exit1"}

RulesOf(gs) == UNION {g.rules : g \in gs}
OtherGroups(d) == {g \in Groups(d) : g.name # COMBINED}

Labels(es) == {es[i].country_code : i \in 1..Len(es)}
AsEntries(rs) == {[type |-> RuleTypeMap(r[1]), value |-> r[2]] : r \in rs}

-----------------------------------------------------------------------------
(* C1 *)

\* C1: once the manifest has been processed and the combined group has been
\* written, the rule set stored under 'blocklists-all' equals exactly the
\* union of the rule sets of all other groups of the catalog, also when a
\* source name appeared on several manifest lines.  (Stated for manifests
\* that do not themselves use the name 'blocklists-all', so that the other
\* groups are exactly the groups the manifest produced.)
C1_CombinedEqualsUnion ==
    (Sealed /\ COMBINED \notin Keys(old) /\ COMBINED \in Keys(blocklists))
        => Get(blocklists, COMBINED) = RulesOf(OtherGroups(blocklists))

-----------------------------------------------------------------------------
(* C2 *)

\* C2: two runs whose final catalogs hold the same groups (same names, same
\* rule sets) hand the encoder the same sequence of groups, whatever the
\* order in which their manifests named the sources, also for names that
\* differ only in letter case.
C2_OrderIndependentOutput ==
    (pc = "done" /\ prev # <<>> /\ prev[1].catalog = Groups(blocklists))
        => prev[1].entries = entries

-----------------------------------------------------------------------------
(* C3 *)

\* C3 (as claimed): after manifest processing ends the catalog always
\* contains 'blocklists-all', holding the union of the present groups' rule
\* sets, and the output contains a group labelled BLOCKLISTS-ALL, also when
\* no rule was collected at all.
C3_SealAlwaysLeavesCombined ==
    Sealed =>
        /\ COMBINED \in Keys(blocklists)
        /\ Get(blocklists, COMBINED) = RulesOf(Groups(old))
        /\ Assembled => Upper(COMBINED) \in Labels(entries)

\* C3 (amended): sealing writes the combined entry exactly when at least one
\* rule was accumulated.  Then the catalog contains 'blocklists-all' holding
\* the accumulated set all_rules, which includes every rule of every group
\* present before sealing, and the output contains a group BLOCKLISTS-ALL
\* with those rules.  When all_rules is empty sealing leaves the catalog as
\* it was.
C3_SealLeavesCombinedIfAnyRule ==
    Sealed =>
        IF all_rules # {}
        THEN /\ COMBINED \in Keys(blocklists)
             /\ Get(blocklists, COMBINED) = all_rules
             /\ RulesOf(Groups(old)) \subseteq all_rules
             /\ Assembled =>
                   \E i \in 1..Len(entries) :
                       /\ entries[i].country_code = Upper(COMBINED)
                       /\ entries[i].domain = AsEntries(all_rules)
        ELSE blocklists = old

\* A run in which two source groups were present and the combined entry was
\* written behind them.
C3_Witness ==
    /\ pc = "done"
    /\ all_rules # {}
    /\ Len(old) = 2
    /\ Len(blocklists) = 3
    /\ blocklists[3].name = COMBINED

-----------------------------------------------------------------------------
(* C4 *)

\* C4: a step in which the fetch of a source fails leaves the catalog and
\* all_rules exactly as they were and stays in the manifest loop; and after
\* a failed fetch the run still gets to assembly and to writing the artifact.
C4_FetchFailureSkipsSource ==
    /\ [][(event' = "fetch_failed" /\ nread' # nread)
            => (blocklists' = blocklists /\ all_rules' = all_rules /\ pc' = "loop")]_vars
    /\ ((event = "fetch_failed") ~> (pc = "write"))

\* A fetch failed for a name whose group, from an earlier line, is still
\* in the catalog.
C4_Witness ==
    /\ event = "fetch_failed"
    /\ name \in Keys(blocklists)
    /\ Get(blocklists, name) # {}

-----------------------------------------------------------------------------
(* C5 *)

\* C5 (as claimed): when a rule-producing line occurs more than once in the
\* content, the returned rule set holds exactly one rule for that line's
\* domain, whatever the other lines are.
C5_RepeatedLineOneRulePerDomain ==
    pc = "parsed" =>
        \A i, j \in 1..Len(lines) :
            (i < j /\ lines[i] = lines[j] /\ ClassifyLine(lines[i]) # None)
                => Cardinality({r \in rules : r[2] = ClassifyLine(lines[i])[2]}) = 1

\* C5 (amended): when a rule-producing line occurs more than once in the
\* content, the returned rule set holds that line's (kind, domain) rule, it
\* holds one rule of that kind for the domain, and it holds another rule
\* for the same domain only when some line of the content yields that
\* domain under the other kind.
C5_RepeatedLineOneRulePerKindAndDomain ==
    pc = "parsed" =>
        \A i, j \in 1..Len(lines) :
            (i < j /\ lines[i] = lines[j] /\ ClassifyLine(lines[i]) # None)
                => LET r0 == ClassifyLine(lines[i])
                       same == {r \in rules : r[2] = r0[2]}
                   IN  /\ r0 \in rules
                       /\ Cardinality({r \in same : r[1] = r0[1]}) = 1
                       /\ \/ Cardinality(same) = 1
                          \/ \E k \in 1..Len(lines) :
                                /\ ClassifyLine(lines[k]) # None
                                /\ ClassifyLine(lines[k])[2] = r0[2]
                                /\ ClassifyLine(lines[k])[1] # r0[1]

\* A content with a repeated hosts line and a third line of another dialect
\* naming the same domain.
C5_Witness ==
    /\ pc = "parsed"
    /\ Len(lines) = 3
    /\ lines[1] = lines[2]
    /\ lines[3] # lines[1]
    /\ rules = {<<"full", <<"a", ".", "b">>>>, <<"domain", <<"a", ".", "b">>>>}

-----------------------------------------------------------------------------
(* C6 *)

\* C6: the groups handed to the encoder carry the upper-cased names of the
\* catalog's groups and are in ascending order of label: no group's label is
\* greater than the label of the group behind it.
C6_OutputSortedByLabel ==
    Assembled =>
        /\ Len(entries) = Len(blocklists)
        /\ Labels(entries) = {Upper(k) : k \in Keys(blocklists)}
        /\ \A i \in 1..(Len(entries) - 1) :
              ~StrLess(entries[i + 1].country_code, entries[i].country_code)

\* An output whose order differs from the catalog's insertion order.
C6_Witness ==
    /\ pc = "write"
    /\ Len(entries) = 3
    /\ entries # BuildEntries(blocklists)

-----------------------------------------------------------------------------
(* C7 *)

\* C7: the line of the last loop iteration contributed at most one rule,
\* chosen by the first dialect that matches: nothing for a blank line or a
\* line starting with '#', '!' or '/'; else (full, token) and not a
\* (domain, first token) rule for a hosts line; else (domain, token) for a
\* '||token^' line; else (domain, first token) when the whole first token
\* has the label.tld shape; else nothing.  The token is lower-cased.
C7_FirstMatchingDialectWins ==
    (pc \in {"parse", "parsed"} /\ lines # <<>>) =>
        LET line == Strip(lines[Len(lines)])
            first == FirstPart(line)
            h == HOSTS_PATTERN(line)
            a == ADGUARD_PATTERN(line)
        IN  /\ Cardinality(rules) <= Len(lines)
            /\ hit # None => hit \in rules
            /\ IF line = <<>> \/ line[1] \in {"#", "!", "/"} THEN hit = None
               ELSE IF h # <<>>
                    THEN hit = <<"full", Lower(h)>> /\ hit # <<"domain", Lower(first)>>
               ELSE IF a # <<>> THEN hit = <<"domain", Lower(a)>>
               ELSE IF RAW_DOMAIN_PATTERN(first) # <<>> THEN hit = <<"domain", Lower(first)>>
               ELSE hit = None

\* A hosts line whose first token, the address, has the label.tld shape
\* too, and which yielded the full rule of its second token.
C7_Witness ==
    /\ pc = "parse"
    /\ lines # <<>>
    /\ RAW_DOMAIN_PATTERN(FirstPart(Strip(lines[Len(lines)]))) # <<>>
    /\ hit = <<"full", <<"a", ".", "b">>>>

-----------------------------------------------------------------------------
(* C8 *)

WellFormedDomain(d) ==
    /\ d # <<>>
    /\ \A i \in 1..Len(d) : d[i] \notin Range(UpperChars) /\ d[i] \notin Whitespace

\* C8: every rule of the rule set being returned, of every catalog group
\* and of all_rules has kind full or domain and a non-empty, lower-cased
\* domain without whitespace; every output entry has type Full or
\* RootDomain; and the lines parse_blocklist has iterated, when they differ
\* only in letter case, have yielded at most one rule.
C8_RulesWellFormed ==
    /\ \A r \in rules \cup all_rules \cup RulesOf(Groups(blocklists)) :
          r[1] \in {"full", "domain"} /\ WellFormedDomain(r[2])
    /\ \A i \in 1..Len(entries) : \A e \in entries[i].domain :
          e.type \in {"Full", "RootDomain"} /\ WellFormedDomain(e.value)
    /\ (pc \in {"parse", "parsed"}
          /\ \A i, j \in 1..Len(lines) : Upper(lines[i]) = Upper(lines[j]))
          => Cardinality(rules) <= 1

\* Two lines that differ in letter case only, parsed to a single rule.
C8_Witness ==
    /\ pc = "parsed"
    /\ Len(lines) = 2
    /\ lines[1] # lines[2]
    /\ Upper(lines[1]) = Upper(lines[2])
    /\ Cardinality(rules) = 1

-----------------------------------------------------------------------------
(* C9 *)

\* C9: the catalog changes only by the insertion of the group of the
\* manifest line just read, while the manifest is being read, or by the
\* writing of the combined entry, in the one step that follows the end of
\* the manifest.  An insertion stores the parsed rule set under the line's
\* name, a new name going last and a present name keeping its place with
\* the new rule set, and leaves the other groups alone.  Once the manifest
\* has ended no line is read any more.
C9_InsertThenSeal ==
    [][ /\ (event' = "fetched" /\ nread' # nread) =>
              /\ pc = "loop"
              /\ blocklists' =
                    IF name' \in Keys(blocklists)
                    THEN [i \in 1..Len(blocklists) |->
                            IF blocklists[i].name = name'
                            THEN [name |-> name', rules |-> rules']
                            ELSE blocklists[i]]
                    ELSE Append(blocklists, [name |-> name', rules |-> rules'])
        /\ blocklists' # blocklists =>
              \/ pc = "loop" /\ pc' = "loop" /\ event' = "fetched" /\ nread' = nread + 1
              \/ /\ pc = "seal" /\ pc' = "assemble"
                 /\ Get(blocklists', COMBINED) = all_rules
                 /\ \A k \in Keys(blocklists) \ {COMBINED} :
                       k \in Keys(blocklists') /\ Get(blocklists', k) = Get(blocklists, k)
                 /\ Keys(blocklists') = Keys(blocklists) \cup {COMBINED}
        /\ pc # "loop" => (nread' = nread /\ pc' # "loop" /\ pc' # "seal")
      ]_vars

\* A later list of the same name has replaced an earlier one.
C9_Witness ==
    /\ event = "fetched"
    /\ name \in Keys(old)
    /\ Get(old, name) # {}
    /\ Get(old, name) # Get(blocklists, name)
    /\ Len(blocklists) = 2

-----------------------------------------------------------------------------
(* C10 *)

\* C10: all_rules always contains every rule of every group stored in the
\* catalog and never loses a rule from one step to the next; so once the
\* combined group is written it contains every rule of every other group,
\* also after a group was replaced by a later list of the same name.
C10_AllRulesCoversCatalog ==
    /\ [](RulesOf(Groups(blocklists)) \subseteq all_rules)
    /\ [][all_rules \subseteq all_rules']_vars
    /\ []((Sealed /\ COMBINED \in Keys(blocklists))
            => RulesOf(OtherGroups(blocklists)) \subseteq Get(blocklists, COMBINED))

\* The combined group was written after a replacement: it holds a rule that
\* no other group holds any more.
C10_Witness ==
    /\ pc = "assemble"
    /\ event = "sealed"
    /\ COMBINED \notin Keys(old)
    /\ RulesOf(OtherGroups(blocklists)) # Get(blocklists, COMBINED)
    /\ RulesOf(OtherGroups(blocklists)) # {}

====
